---- MODULE Spec2Model ----
(***************************************************************************)
(* Model of yolo_to_kitti.py: the YOLO -> KITTI label converter, the       *)
(* conversion verifier, the report printer and main().                     *)
(*                                                                         *)
(* Text (file names, label lines, class names) is a sequence of one-       *)
(* character strings, so that split / strip / endswith / replace / int /   *)
(* float / the .2f formatting are computed character by character, as the  *)
(* Python built-ins compute them.                                          *)
(*                                                                         *)
(* Numbers: the code computes in IEEE doubles.  The model computes the     *)
(* exact rational value (inputs are decimals of at most MaxFrac fraction   *)
(* digits).  A double differs from the exact value by a relative error of  *)
(* about 1e-16, which can change the two-decimal output only when the      *)
(* exact value lies exactly half way between two hundredths; in that case  *)
(* the model lets the formatting yield either neighbour.                   *)
(***************************************************************************)
EXTENDS Integers, Sequences, FiniteSets, TLC

VARIABLES
    args,                  \* the parsed command line (argparse namespace)
    fs,                    \* the file system: folder -> [exists, files]
    fs0,                   \* history: the file system when the program started
    pc,                    \* position of the program
    class_mapping,         \* main: the decoded class mapping
    idx,                   \* main / verify_conversion: index of the folder set
    todo,                  \* the files the current for-loop has still to visit
    filename,              \* converter: the label file being converted
    lines,                 \* converter: the lines of yolo_file not yet read
    image_size,            \* converter: <<image_width, image_height>>
    processed_labels,      \* converter: counter
    copied_images,         \* converter: counter
    failed_copies,         \* converter: counter
    folder_type,           \* verify_conversion: "labels" or "images"
    verification_results,  \* verify_conversion: idx -> result record
    all_passed,            \* print_verification_report: the running flag
    stdout                 \* what the program has printed, in order

vars == <<args, fs, fs0, pc, class_mapping, idx, todo, filename, lines, image_size,
          processed_labels, copied_images, failed_copies, folder_type,
          verification_results, all_passed, stdout>>

-----------------------------------------------------------------------------
(* Bounds of the model *)

\* Input decimals carry at most MaxFrac fraction digits.
MaxFrac == 3

-----------------------------------------------------------------------------
(* Python string built-ins, on sequences of characters *)

Digit == <<"0", "1", "2", "3", "4", "5", "6", "7", "8", "9">>

IsDigit(c) == \E d \in 1..10 : Digit[d] = c

DigitVal(c) == (CHOOSE d \in 1..10 : Digit[d] = c) - 1

\* str.isspace for the characters of the model's alphabet
IsSpace(c) == c \in {" ", "\t", "\n", "\r"}

RECURSIVE LStrip(_)
LStrip(s) == IF s # <<>> /\ IsSpace(Head(s)) THEN LStrip(Tail(s)) ELSE s

RECURSIVE RStrip(_)
RStrip(s) ==
    IF s # <<>> /\ IsSpace(s[Len(s)]) THEN RStrip(SubSeq(s, 1, Len(s) - 1)) ELSE s

\* str.strip()
Strip(s) == RStrip(LStrip(s))

\* the k-th smallest element of a set of numbers
Nth(S, k) == CHOOSE p \in S : Cardinality({q \in S : q < p}) = k - 1

\* the positions where a maximal run of non-whitespace starts, and where the
\* run that starts at i ends
WordStarts(s) ==
    {i \in 1..Len(s) : ~IsSpace(s[i]) /\ (i = 1 \/ IsSpace(s[i - 1]))}
WordEnd(s, i) ==
    CHOOSE j \in i..Len(s) :
        /\ j = Len(s) \/ IsSpace(s[j + 1])
        /\ \A k \in i..j : ~IsSpace(s[k])

\* str.split() with no separator: the maximal runs of non-whitespace
Split(s) ==
    LET starts == WordStarts(s) IN
    [k \in 1..Cardinality(starts) |->
        LET i == Nth(starts, k) IN SubSeq(s, i, WordEnd(s, i))]

\* str.endswith(suffix)
EndsWith(s, suffix) ==
    /\ Len(s) >= Len(suffix)
    /\ SubSeq(s, Len(s) - Len(suffix) + 1, Len(s)) = suffix

StartsWith(s, prefix) ==
    /\ Len(s) >= Len(prefix)
    /\ SubSeq(s, 1, Len(prefix)) = prefix

RECURSIVE Replace(_, _, _)
\* str.replace(old, new): every non-overlapping occurrence, left to right
Replace(s, old, new) ==
    IF s = <<>> THEN <<>>
    ELSE IF StartsWith(s, old)
         THEN new \o Replace(SubSeq(s, Len(old) + 1, Len(s)), old, new)
         ELSE <<Head(s)>> \o Replace(Tail(s), old, new)

RECURSIVE Pow10(_)
Pow10(n) == IF n = 0 THEN 1 ELSE 10 * Pow10(n - 1)

RECURSIVE DigitsVal(_)
\* the number a string of digits denotes
DigitsVal(ds) ==
    IF ds = <<>> THEN 0
    ELSE 10 * DigitsVal(SubSeq(ds, 1, Len(ds) - 1)) + DigitVal(ds[Len(ds)])

AllDigits(s) == \A i \in 1..Len(s) : IsDigit(s[i])

Unsigned(tok) == IF tok # <<>> /\ Head(tok) \in {"+", "-"} THEN Tail(tok) ELSE tok

Sign(tok) == IF tok # <<>> /\ Head(tok) = "-" THEN -1 ELSE 1

\* int(tok) does not raise ValueError: an optional sign and one or more digits
IntOk(tok) == Unsigned(tok) # <<>> /\ AllDigits(Unsigned(tok))

\* int(tok)
IntVal(tok) == Sign(tok) * DigitsVal(Unsigned(tok))

RECURSIVE NatStr(_)
NatStr(n) == IF n < 10 THEN <<Digit[n + 1]>> ELSE NatStr(n \div 10) \o <<Digit[(n % 10) + 1]>>

\* str(n) of an int
IntStr(n) == IF n < 0 THEN <<"-">> \o NatStr(-n) ELSE NatStr(n)

\* the position of the decimal point of an unsigned numeral, 0 when it has none
DotPos(u) == IF \E i \in 1..Len(u) : u[i] = "."
             THEN CHOOSE i \in 1..Len(u) : u[i] = "." /\ \A j \in 1..(i - 1) : u[j] # "."
             ELSE 0

IntPart(u) == IF DotPos(u) = 0 THEN u ELSE SubSeq(u, 1, DotPos(u) - 1)

FracPart(u) == IF DotPos(u) = 0 THEN <<>> ELSE SubSeq(u, DotPos(u) + 1, Len(u))

\* float(tok) does not raise ValueError: an optional sign, digits with at most
\* one decimal point, at least one digit (decimal notation only)
FloatOk(tok) ==
    LET u == Unsigned(tok) IN
    /\ AllDigits(IntPart(u)) /\ AllDigits(FracPart(u))
    /\ Len(IntPart(u)) + Len(FracPart(u)) >= 1

\* float values are kept as integers in units of 1 / Scale
Scale == Pow10(MaxFrac)

\* float(tok), in units of 1 / Scale (tok has at most MaxFrac fraction digits)
FloatVal(tok) ==
    LET u == Unsigned(tok) IN
    Sign(tok) * (DigitsVal(IntPart(u)) * Scale
                 + DigitsVal(FracPart(u)) * Pow10(MaxFrac - Len(FracPart(u))))

Abs(n) == IF n < 0 THEN -n ELSE n

\* The hundredths the value num / den (den > 0) may be rounded to by the
\* correctly rounded "%.2f" of the double nearest to it: the nearest one, either
\* neighbour on an exact tie.
Hundredths(num, den) ==
    LET q == (Abs(num) * 100) \div den
        r == (Abs(num) * 100) % den
    IN  IF 2 * r < den THEN {q}
        ELSE IF 2 * r > den THEN {q + 1}
        ELSE {q, q + 1}

\* the text of c hundredths: sign, integer digits, ".", two fraction digits
FixedText(neg, c) ==
    (IF neg THEN <<"-">> ELSE <<>>) \o NatStr(c \div 100) \o <<".">>
        \o <<Digit[((c \div 10) % 10) + 1], Digit[(c % 10) + 1]>>

\* f"{v:.2f}" for v = num / den: the set of texts the formatting may yield
Format2f(num, den) == {FixedText(num < 0, c) : c \in Hundredths(num, den)}

-----------------------------------------------------------------------------
(* The file system *)

TxtExt == <<".", "t", "x", "t">>
PngExt == <<".", "p", "n", "g">>
JpgExt == <<".", "j", "p", "g">>

\* a text file and an image file (valid: PIL can decode it)
TextFile(data) == [kind |-> "text", data |-> data]
ImageFile(valid, size) == [kind |-> "image", valid |-> valid, size |-> size]

NoFiles == [f \in {} |-> TextFile(<<>>)]

\* os.listdir(folder), os.path.exists(join(folder, f))
ListDir(folder) == DOMAIN fs[folder].files
FileExists(folder, f) == fs[folder].exists /\ f \in DOMAIN fs[folder].files

\* os.makedirs(folder, exist_ok=True) / the guarded os.makedirs, on file system g
MakeDirs(g, folder) ==
    IF g[folder].exists THEN g ELSE [g EXCEPT ![folder].exists = TRUE]

\* the file system g with file f of folder set to content (created or replaced)
PutFile(g, folder, f, content) ==
    [g EXCEPT ![folder].files =
        [x \in (DOMAIN g[folder].files) \cup {f} |->
            IF x = f THEN content ELSE g[folder].files[x]]]

\* the positions where a line of the text ends: each "\n", and the last
\* character of a text that does not end in "\n"
LineEnds(data) ==
    {i \in 1..Len(data) : data[i] = "\n" \/ i = Len(data)}

\* f.readlines() and iteration over a text file: the lines, each with its "\n"
ReadLines(data) ==
    LET ends == LineEnds(data) IN
    [k \in 1..Cardinality(ends) |->
        SubSeq(data, IF k = 1 THEN 1 ELSE Nth(ends, k - 1) + 1, Nth(ends, k))]

\* print(...)
Out(m) == stdout' = Append(stdout, m)

-----------------------------------------------------------------------------
(* yolo_to_kitti_with_image_dimensions: one label line *)

DontCare == <<"D", "o", "n", "t", "C", "a", "r", "e">>

\* dict.get(key, default)
Get(mapping, key, default) == IF key \in DOMAIN mapping THEN mapping[key] ELSE default

\* parts = line.strip().split()
Parts(line) == Split(Strip(line))

\* class_id = int(parts[0]); x_center, y_center, width, height = map(float, parts[1:])
\* raises (IndexError / ValueError) unless this holds
LineParses(line) ==
    LET parts == Parts(line) IN
    /\ Len(parts) >= 1
    /\ IntOk(parts[1])
    /\ Len(parts) = 5
    /\ \A i \in 2..5 : FloatOk(parts[i])

\* The four corners, as integers in units of 1 / HalfScale (the code's width / 2
\* is exact in these units); centre and size are in units of 1 / Scale.
HalfScale == 2 * Scale

\* x_left = (x_center - width / 2) * image_width
XLeft(x_center, width, image_width) == (2 * x_center - width) * image_width

\* (a slip: the whole height is subtracted)
YTopMutant(y_center, height, image_height) == (2 * y_center - 2 * height) * image_height
\* y_top = (y_center - height / 2) * image_height
YTop(y_center, height, image_height) == (2 * y_center - height) * image_height

\* (a slip: the half width is subtracted, as for x_left)
XRightMutant(x_center, width, image_width) == (2 * x_center - width) * image_width
\* x_right = (x_center + width / 2) * image_width
XRight(x_center, width, image_width) == (2 * x_center + width) * image_width

\* y_bottom = (y_center + height / 2) * image_height
YBottom(y_center, height, image_height) == (2 * y_center + height) * image_height

\* (a slip: an unknown id falls back to the id itself)
ClassNameMutant(mapping, class_id) == Get(mapping, IntStr(class_id), IntStr(class_id))
\* class_name = class_mapping.get(str(class_id), "DontCare")
ClassName(mapping, class_id) == Get(mapping, IntStr(class_id), DontCare)

SP == <<" ">>

\* f"{truncated} {occluded} {alpha}" with truncated = 0.0, occluded = 0, alpha = -1.0
Placeholders == <<"0", ".", "0", " ", "0", " ", "-", "1", ".", "0">>

\* " 0 0 0 0 0 0 0\n"
Trailer == <<" ", "0", " ", "0", " ", "0", " ", "0", " ", "0", " ", "0", " ", "0", "\n">>

\* the f-string of kitti_file.write
KittiText(class_name, x_left, y_top, x_right, y_bottom) ==
    class_name \o SP \o Placeholders \o SP \o x_left \o SP \o y_top \o SP
        \o x_right \o SP \o y_bottom \o Trailer

\* The strings kitti_file.write may be given for one YOLO line that parses.
KittiLines(line, size, mapping) ==
    LET parts == Parts(line)
        class_id == IntVal(parts[1])
        x_center == FloatVal(parts[2])
        y_center == FloatVal(parts[3])
        width == FloatVal(parts[4])
        height == FloatVal(parts[5])
        image_width == size[1]
        image_height == size[2]
    IN  { KittiText(ClassName(mapping, class_id), xl, yt, xr, yb) :
            xl \in Format2f(XLeft(x_center, width, image_width), HalfScale),
            yt \in Format2f(YTop(y_center, height, image_height), HalfScale),
            xr \in Format2f(XRight(x_center, width, image_width), HalfScale),
            yb \in Format2f(YBottom(y_center, height, image_height), HalfScale) }

-----------------------------------------------------------------------------
(* yolo_to_kitti_with_image_dimensions(yolo_folder, kitti_folder, image_folder,
   img_output_folder, class_mapping), called by main for folder set idx *)

yolo_folder == args.label_folders[idx]
kitti_folder == args.output_folders[idx]
image_folder == args.image_folders[idx]

\* img_output_folder is not None
CopiesImages == args.image_output_folders # <<>>
img_output_folder == args.image_output_folders[idx]

\* basename of image_path = join(image_folder, filename.replace(".txt", ".png"))
ImageName(f) == Replace(f, TxtExt, PngExt)

\* the folders are created, the counters reset, the loop over os.listdir starts
ConvStart ==
    /\ pc = "conv_start"
    /\ fs' = LET g == MakeDirs(fs, kitti_folder)
             IN  IF CopiesImages THEN MakeDirs(g, img_output_folder) ELSE g
    /\ processed_labels' = 0
    /\ copied_images' = 0
    /\ failed_copies' = 0
    /\ todo' = ListDir(yolo_folder)
    /\ pc' = "conv_loop"
    /\ UNCHANGED <<args, fs0, class_mapping, idx, filename, lines, image_size,
                   folder_type, verification_results, all_passed, stdout>>

\* a directory entry that is no ".txt" file is passed over
ConvSkipOther ==
    /\ pc = "conv_loop"
    /\ \E f \in todo :
        /\ ~EndsWith(f, TxtExt)
        /\ todo' = todo \ {f}
    /\ UNCHANGED <<args, fs0, fs, pc, class_mapping, idx, filename, lines, image_size,
                   processed_labels, copied_images, failed_copies, folder_type,
                   verification_results, all_passed, stdout>>

\* if not os.path.exists(image_path): print(...); continue
ConvSkipNoImage ==
    /\ pc = "conv_loop"
    /\ \E f \in todo :
        /\ EndsWith(f, TxtExt)
        /\ ~FileExists(image_folder, ImageName(f))
        /\ Out([msg |-> "Image not found for label", file |-> f])
        /\ todo' = todo \ {f}
    /\ UNCHANGED <<args, fs0, fs, pc, class_mapping, idx, filename, lines, image_size,
                   processed_labels, copied_images, failed_copies, folder_type,
                   verification_results, all_passed>>

\* Image.open(image_path) raises on a file PIL cannot identify: uncaught
ConvImageRaises ==
    /\ pc = "conv_loop"
    /\ \E f \in todo :
        /\ EndsWith(f, TxtExt)
        /\ FileExists(image_folder, ImageName(f))
        /\ ~fs[image_folder].files[ImageName(f)].valid
        /\ filename' = f
    /\ pc' = "raised"
    /\ UNCHANGED <<args, fs0, fs, class_mapping, idx, todo, lines, image_size,
                   processed_labels, copied_images, failed_copies, folder_type,
                   verification_results, all_passed, stdout>>

\* image.size is read; yolo_file is opened for reading and kitti_file for
\* writing, which creates it or truncates it to nothing
ConvOpen ==
    /\ pc = "conv_loop"
    /\ \E f \in todo :
        /\ EndsWith(f, TxtExt)
        /\ FileExists(image_folder, ImageName(f))
        /\ fs[image_folder].files[ImageName(f)].valid
        /\ filename' = f
        /\ image_size' = fs[image_folder].files[ImageName(f)].size
        /\ lines' = ReadLines(fs[yolo_folder].files[f].data)
        /\ fs' = PutFile(fs, kitti_folder, f, TextFile(<<>>))
    /\ pc' = "conv_lines"
    /\ UNCHANGED <<args, fs0, class_mapping, idx, todo, processed_labels, copied_images,
                   failed_copies, folder_type, verification_results, all_passed,
                   stdout>>

\* one iteration of "for line in yolo_file" that writes its KITTI line
ConvertLine ==
    /\ pc = "conv_lines"
    /\ lines # <<>>
    /\ LineParses(Head(lines))
    /\ \E text \in KittiLines(Head(lines), image_size, class_mapping) :
        fs' = PutFile(fs, kitti_folder, filename,
                      TextFile(fs[kitti_folder].files[filename].data \o text))
    /\ lines' = Tail(lines)
    /\ UNCHANGED <<args, fs0, pc, class_mapping, idx, todo, filename, image_size,
                   processed_labels, copied_images, failed_copies, folder_type,
                   verification_results, all_passed, stdout>>

\* one iteration whose int(...) / float(...) / unpacking raises: both files are
\* closed by the with statement and the exception leaves main
ConvertLineRaises ==
    /\ pc = "conv_lines"
    /\ lines # <<>>
    /\ ~LineParses(Head(lines))
    /\ pc' = "raised"
    /\ UNCHANGED <<args, fs0, fs, class_mapping, idx, todo, filename, lines, image_size,
                   processed_labels, copied_images, failed_copies, folder_type,
                   verification_results, all_passed, stdout>>

\* the label is finished and no image copy is asked for
ConvClose ==
    /\ pc = "conv_lines"
    /\ lines = <<>>
    /\ ~CopiesImages
    /\ processed_labels' = processed_labels + 1
    /\ todo' = todo \ {filename}
    /\ pc' = "conv_loop"
    /\ UNCHANGED <<args, fs0, fs, class_mapping, idx, filename, lines, image_size,
                   copied_images, failed_copies, folder_type, verification_results,
                   all_passed, stdout>>

\* the label is finished and copy_image_file copies the image
ConvCloseCopy ==
    /\ pc = "conv_lines"
    /\ lines = <<>>
    /\ CopiesImages
    /\ processed_labels' = processed_labels + 1
    /\ fs' = PutFile(MakeDirs(fs, img_output_folder), img_output_folder,
                     ImageName(filename), fs[image_folder].files[ImageName(filename)])
    /\ copied_images' = copied_images + 1
    /\ todo' = todo \ {filename}
    /\ pc' = "conv_loop"
    /\ UNCHANGED <<args, fs0, class_mapping, idx, filename, lines, image_size,
                   failed_copies, folder_type, verification_results, all_passed,
                   stdout>>

\* the label is finished and shutil.copy2 raises: copy_image_file prints the
\* error and returns False
ConvCloseCopyFails ==
    /\ pc = "conv_lines"
    /\ lines = <<>>
    /\ CopiesImages
    /\ processed_labels' = processed_labels + 1
    /\ failed_copies' = failed_copies + 1
    /\ Out([msg |-> "Error copying image", file |-> ImageName(filename)])
    /\ todo' = todo \ {filename}
    /\ pc' = "conv_loop"
    /\ UNCHANGED <<args, fs0, fs, class_mapping, idx, filename, lines, image_size,
                   copied_images, folder_type, verification_results, all_passed>>

\* the loop is over: the summary is printed and the function returns to main
ConvSummary ==
    /\ pc = "conv_loop"
    /\ todo = {}
    /\ Out([msg |-> "Labels processed", n |-> processed_labels])
    /\ idx' = idx + 1
    /\ pc' = "main_loop"
    /\ UNCHANGED <<args, fs0, fs, class_mapping, todo, filename, lines, image_size,
                   processed_labels, copied_images, failed_copies, folder_type,
                   verification_results, all_passed>>

-----------------------------------------------------------------------------
(* verify_conversion(original_folders, converted_folders, folder_type) *)

original_folders ==
    IF folder_type = "labels" THEN args.label_folders ELSE args.image_folders
converted_folders ==
    IF folder_type = "labels" THEN args.output_folders ELSE args.image_output_folders

\* the number of pairs zip(original_folders, converted_folders) yields
Pairs == IF Len(original_folders) < Len(converted_folders)
         THEN Len(original_folders) ELSE Len(converted_folders)

\* f.endswith('.txt' if folder_type == "labels" else ('.png', '.jpg'))
Selected(f) ==
    IF folder_type = "labels" THEN EndsWith(f, TxtExt)
    ELSE EndsWith(f, PngExt) \/ EndsWith(f, JpgExt)

\* (a slip: the source files are not filtered by extension)
SrcFilesMutant(folder) == ListDir(folder)
SrcFiles(folder) == {f \in ListDir(folder) : Selected(f)}

DstFiles(folder) == {f \in ListDir(folder) : Selected(f)}

\* the result record of one folder pair, before the integrity pass
PairResult(src_files, dst_files) ==
    [source_count |-> Cardinality(src_files),
     destination_count |-> Cardinality(dst_files),
     missing_files |-> src_files \ dst_files,
     unexpected_files |-> dst_files \ src_files,
     verification_errors |-> <<>>]

\* the file lists are taken and the counts and differences stored
VerifyPair ==
    /\ pc = "verify_pair"
    /\ idx <= Pairs
    /\ verification_results' =
          Append(verification_results,
                 PairResult(SrcFiles(original_folders[idx]),
                            DstFiles(converted_folders[idx])))
    /\ todo' = DstFiles(converted_folders[idx])
    /\ pc' = "verify_files"
    /\ UNCHANGED <<args, fs0, fs, class_mapping, idx, filename, lines, image_size,
                   processed_labels, copied_images, failed_copies, folder_type,
                   all_passed, stdout>>

\* the number of fields of a KITTI line
KittiFields == 15

RECURSIVE LineErrors(_, _, _)
\* for line_num, line in enumerate(lines, line_num): one entry per line that
\* does not split into 15 parts
LineErrors(f, ls, line_num) ==
    IF ls = <<>> THEN <<>>
    ELSE (IF Len(Parts(Head(ls))) # KittiFields
          THEN <<[file |-> f, line |-> line_num, msg |-> "Invalid KITTI format"]>>
          ELSE <<>>)
         \o LineErrors(f, Tail(ls), line_num + 1)

\* (a slip: enumerate(lines) counts from 0)
LabelErrorsMutant(f, data) ==
    IF ReadLines(data) = <<>>
    THEN <<[file |-> f, line |-> 0, msg |-> "Empty label file"]>>
    ELSE LineErrors(f, ReadLines(data), 0)
\* the entries the integrity pass appends for the label file f holding data
LabelErrors(f, data) ==
    IF ReadLines(data) = <<>>
    THEN <<[file |-> f, line |-> 0, msg |-> "Empty label file"]>>
    ELSE LineErrors(f, ReadLines(data), 1)

\* the entries the integrity pass appends for the image file f
ImageErrors(f, image) ==
    IF image.valid THEN <<>>
    ELSE <<[file |-> f, line |-> 0, msg |-> "cannot identify image file"]>>

\* one iteration of "for filename in dst_files" of the integrity pass
VerifyFile ==
    /\ pc = "verify_files"
    /\ \E f \in todo :
        LET file == fs[converted_folders[idx]].files[f]
            errors == IF folder_type = "images" THEN ImageErrors(f, file)
                      ELSE LabelErrors(f, file.data)
        IN  /\ verification_results' =
                  [verification_results EXCEPT ![idx].verification_errors = @ \o errors]
            /\ todo' = todo \ {f}
    /\ UNCHANGED <<args, fs0, fs, pc, class_mapping, idx, filename, lines, image_size,
                   processed_labels, copied_images, failed_copies, folder_type,
                   all_passed, stdout>>

\* the integrity pass of the pair is over: the next pair
VerifyPairDone ==
    /\ pc = "verify_files"
    /\ todo = {}
    /\ idx' = idx + 1
    /\ pc' = "verify_pair"
    /\ UNCHANGED <<args, fs0, fs, class_mapping, todo, filename, lines, image_size,
                   processed_labels, copied_images, failed_copies, folder_type,
                   verification_results, all_passed, stdout>>

\* return verification_results; print_verification_report starts:
\* all_passed = True
VerifyReturn ==
    /\ pc = "verify_pair"
    /\ idx > Pairs
    /\ all_passed' = TRUE
    /\ idx' = 1
    /\ pc' = "report"
    /\ UNCHANGED <<args, fs0, fs, class_mapping, todo, filename, lines, image_size,
                   processed_labels, copied_images, failed_copies, folder_type,
                   verification_results, stdout>>

-----------------------------------------------------------------------------
(* print_verification_report(verification_results, folder_type) *)

\* all four fields of a pair's results are clean (the test that prints
\* "All files verified successfully!")
Verified(results) ==
    /\ results.source_count = results.destination_count
    /\ results.missing_files = {}
    /\ results.unexpected_files = {}
    /\ results.verification_errors = <<>>

\* (a slip: the integrity errors do not clear the flag)
AllPassedAfterMutant(flag, results) ==
    LET a1 == IF results.source_count # results.destination_count THEN FALSE ELSE flag
        a2 == IF results.missing_files # {} THEN FALSE ELSE a1
        a3 == IF results.unexpected_files # {} THEN FALSE ELSE a2
    IN  a3
\* all_passed after the four "if ...: all_passed = False" of one pair
AllPassedAfter(flag, results) ==
    LET a1 == IF results.source_count # results.destination_count THEN FALSE ELSE flag
        a2 == IF results.missing_files # {} THEN FALSE ELSE a1
        a3 == IF results.unexpected_files # {} THEN FALSE ELSE a2
        a4 == IF results.verification_errors # <<>> THEN FALSE ELSE a3
    IN  a4

\* one iteration of "for idx, results in verification_results.items()"
ReportPair ==
    /\ pc = "report"
    /\ idx <= Len(verification_results)
    /\ LET results == verification_results[idx] IN
        /\ all_passed' = AllPassedAfter(all_passed, results)
        /\ Out([msg |-> "Set", n |-> idx,
                source_files |-> results.source_count,
                destination_files |-> results.destination_count,
                count_mismatch |-> results.source_count # results.destination_count,
                missing |-> Cardinality(results.missing_files),
                unexpected |-> Cardinality(results.unexpected_files),
                failures |-> Len(results.verification_errors),
                verified |-> Verified(results)])
    /\ idx' = idx + 1
    /\ UNCHANGED <<args, fs0, fs, pc, class_mapping, todo, filename, lines, image_size,
                   processed_labels, copied_images, failed_copies, folder_type,
                   verification_results>>

\* the overall status line ends the report
ReportOverall ==
    /\ pc = "report"
    /\ idx > Len(verification_results)
    /\ Out([msg |-> "Overall Verification Status",
            status |-> IF all_passed THEN "PASSED" ELSE "FAILED"])
    /\ pc' = "reported"
    /\ UNCHANGED <<args, fs0, fs, class_mapping, idx, todo, filename, lines, image_size,
                   processed_labels, copied_images, failed_copies, folder_type,
                   verification_results, all_passed>>

-----------------------------------------------------------------------------
(* main() *)

Sets == Len(args.label_folders)

\* class_mapping = json.loads(args.class_mapping), JSONDecodeError caught
MainParseMapping ==
    /\ pc = "main"
    /\ IF args.class_mapping.valid
       THEN /\ class_mapping' = args.class_mapping.value
            /\ pc' = "check_image_outputs"
            /\ UNCHANGED stdout
       ELSE /\ Out([msg |-> "Invalid class mapping JSON"])
            /\ pc' = "done"
            /\ UNCHANGED class_mapping
    /\ UNCHANGED <<args, fs0, fs, idx, todo, filename, lines, image_size,
                   processed_labels, copied_images, failed_copies, folder_type,
                   verification_results, all_passed>>

\* if args.image_output_folders and len(...) != len(args.label_folders): return
MainCheckImageOutputs ==
    /\ pc = "check_image_outputs"
    /\ IF CopiesImages /\ Len(args.image_output_folders) # Len(args.label_folders)
       THEN /\ Out([msg |-> "Error: The number of image output folders must match the number of input folders."])
            /\ pc' = "done"
       ELSE /\ pc' = "check_folders"
            /\ UNCHANGED stdout
    /\ UNCHANGED <<args, fs0, fs, class_mapping, idx, todo, filename, lines, image_size,
                   processed_labels, copied_images, failed_copies, folder_type,
                   verification_results, all_passed>>

\* (a slip: the image folder list is not compared)
FolderCountsMatchMutant == Len(args.label_folders) = Len(args.output_folders)
\* len(label_folders) == len(output_folders) == len(image_folders)
FolderCountsMatch ==
    /\ Len(args.label_folders) = Len(args.output_folders)
    /\ Len(args.output_folders) = Len(args.image_folders)

\* if not (len(...) == len(...) == len(...)): print(...); return
MainCheckFolders ==
    /\ pc = "check_folders"
    /\ IF ~FolderCountsMatch
       THEN /\ Out([msg |-> "Error: The number of input, output, and image folders must match."])
            /\ pc' = "done"
            /\ UNCHANGED idx
       ELSE /\ pc' = "main_loop"
            /\ idx' = 1
            /\ UNCHANGED stdout
    /\ UNCHANGED <<args, fs0, fs, class_mapping, todo, filename, lines, image_size,
                   processed_labels, copied_images, failed_copies, folder_type,
                   verification_results, all_passed>>

\* the next folder set is announced and handed to the converter
MainNextSet ==
    /\ pc = "main_loop"
    /\ idx <= Sets
    /\ Out([msg |-> "Processing set", n |-> idx])
    /\ pc' = "conv_start"
    /\ UNCHANGED <<args, fs0, fs, class_mapping, idx, todo, filename, lines, image_size,
                   processed_labels, copied_images, failed_copies, folder_type,
                   verification_results, all_passed>>

\* all sets are converted: verify_conversion(label_folders, output_folders, "labels")
MainVerifyLabels ==
    /\ pc = "main_loop"
    /\ idx > Sets
    /\ Out([msg |-> "Verifying conversion results..."])
    /\ folder_type' = "labels"
    /\ verification_results' = <<>>
    /\ idx' = 1
    /\ pc' = "verify_pair"
    /\ UNCHANGED <<args, fs0, fs, class_mapping, todo, filename, lines, image_size,
                   processed_labels, copied_images, failed_copies, all_passed>>

\* if args.image_output_folders: verify_conversion(image_folders,
\* image_output_folders, "images")
MainVerifyImages ==
    /\ pc = "reported"
    /\ folder_type = "labels"
    /\ CopiesImages
    /\ folder_type' = "images"
    /\ verification_results' = <<>>
    /\ idx' = 1
    /\ pc' = "verify_pair"
    /\ UNCHANGED <<args, fs0, fs, class_mapping, todo, filename, lines, image_size,
                   processed_labels, copied_images, failed_copies, all_passed,
                   stdout>>

\* main returns
MainReturn ==
    /\ pc = "reported"
    /\ folder_type = "images" \/ ~CopiesImages
    /\ pc' = "done"
    /\ UNCHANGED <<args, fs0, fs, class_mapping, idx, todo, filename, lines, image_size,
                   processed_labels, copied_images, failed_copies, folder_type,
                   verification_results, all_passed, stdout>>

-----------------------------------------------------------------------------
(* The inputs of a run of main(): the command line and the file system *)

\* main is given at most MaxSets folders per folder list
MaxSets == 2

LabelFolder(i) == <<"labels", i>>
OutputFolder(i) == <<"kitti", i>>
ImageFolder(i) == <<"images", i>>
ImageOutputFolder(i) == <<"images_out", i>>

Folders ==
    UNION {{LabelFolder(i), OutputFolder(i), ImageFolder(i), ImageOutputFolder(i)} :
              i \in 1..MaxSets}

Folder(files) == [exists |-> TRUE, files |-> files]
AbsentFolder == [exists |-> FALSE, files |-> NoFiles]

\* file names: a.txt, b.txt, a.txt.txt, n.md and a.png, b.png, a.txt.png
NameA == <<"a", ".", "t", "x", "t">>
NameB == <<"b", ".", "t", "x", "t">>
NameC == <<"a", ".", "t", "x", "t", ".", "t", "x", "t">>
NameN == <<"n", ".", "m", "d">>
ImageA == <<"a", ".", "p", "n", "g">>
ImageB == <<"b", ".", "p", "n", "g">>
ImageC == <<"a", ".", "t", "x", "t", ".", "p", "n", "g">>

\* "0 0.5 0.5 0.2 0.4\n": a well-formed YOLO line
GoodLine == <<"0", " ", "0", ".", "5", " ", "0", ".", "5", " ", "0", ".", "2", " ", "0", ".", "4", "\n">>

\* "0 0.5 0.5 0.2\n": a YOLO line that lacks its last field
ShortLine == <<"0", " ", "0", ".", "5", " ", "0", ".", "5", " ", "0", ".", "2", "\n">>

\* "car 0.0 0 -1.0 1.00 1.00 2.00 2.00 0 0 0 0 0 0\n": a label line of 14 fields
StaleLine == <<"c", "a", "r", " ", "0", ".", "0", " ", "0", " ", "-", "1", ".", "0", " ", "1", ".", "0", "0", " ", "1", ".", "0", "0", " ", "2", ".", "0", "0", " ", "2", ".", "0", "0", " ", "0", " ", "0", " ", "0", " ", "0", " ", "0", " ", "0", "\n">>

\* the files the first label folder may hold, each with the contents it may have
LabelContents ==
    [f \in {NameA, NameB, NameC, NameN} |->
        IF f = NameA
        THEN {TextFile(<<>>), TextFile(GoodLine), TextFile(GoodLine \o GoodLine),
              TextFile(GoodLine \o ShortLine), TextFile(ShortLine \o GoodLine)}
        ELSE {TextFile(GoodLine)}]

GoodImage == ImageFile(TRUE, <<100, 200>>)
BadImage == ImageFile(FALSE, <<0, 0>>)

\* the files the first image folder may hold
ImageContents ==
    [f \in {ImageA, ImageB, ImageC} |->
        IF f = ImageB THEN {GoodImage, BadImage} ELSE {GoodImage}]

\* the folders' contents: the functions from a subset of the names to the
\* contents allowed for each name
FileMaps(contents) ==
    UNION { { m \in [S -> UNION {contents[f] : f \in S}] :
                \A f \in S : m[f] \in contents[f] } : S \in SUBSET DOMAIN contents }

CarMapping == (<<"0">> :> <<"c", "a", "r">>)

EmptyMapping == [k \in {} |-> <<>>]

\* the -map argument: text json.loads rejects, or the text of a mapping
JsonDocuments == {[valid |-> FALSE, value |-> EmptyMapping],
                  [valid |-> TRUE, value |-> CarMapping]}

\* a folder list of n folders of one kind
FolderList(kind, n) == [i \in 1..n |-> <<kind, i>>]

ArgumentSets ==
    [label_folders : {FolderList("labels", n) : n \in 1..MaxSets},
     output_folders : {FolderList("kitti", n) : n \in 1..MaxSets},
     image_folders : {FolderList("images", n) : n \in 1..MaxSets},
     image_output_folders : {FolderList("images_out", n) : n \in 0..MaxSets},
     class_mapping : JsonDocuments]

\* the folders of the sets after the first: one label with its image, no output
OtherFolder(d) ==
    IF d[1] = "labels" THEN Folder(NameA :> TextFile(GoodLine))
    ELSE IF d[1] = "images" THEN Folder(ImageA :> GoodImage)
    ELSE AbsentFolder

FileSystems ==
    { [d \in Folders |->
          IF d = LabelFolder(1) THEN Folder(L)
          ELSE IF d = ImageFolder(1) THEN Folder(I)
          ELSE IF d = OutputFolder(1) THEN K
          ELSE OtherFolder(d)] :
        L \in FileMaps(LabelContents),
        I \in FileMaps(ImageContents),
        K \in {AbsentFolder, Folder(NoFiles), Folder(NameA :> TextFile(StaleLine))} }

\* the variables main and its callees have not assigned yet
Unassigned ==
    /\ class_mapping = EmptyMapping
    /\ idx = 0
    /\ todo = {}
    /\ filename = <<>>
    /\ lines = <<>>
    /\ image_size = <<0, 0>>
    /\ processed_labels = 0
    /\ copied_images = 0
    /\ failed_copies = 0
    /\ folder_type = "labels"
    /\ verification_results = <<>>
    /\ all_passed = TRUE
    /\ stdout = <<>>

Init ==
    /\ args \in ArgumentSets
    /\ fs \in FileSystems
    /\ fs0 = fs
    /\ pc = "main"
    /\ Unassigned

Next ==
    \/ MainParseMapping
    \/ MainCheckImageOutputs
    \/ MainCheckFolders
    \/ MainNextSet
    \/ ConvStart
    \/ ConvSkipOther
    \/ ConvSkipNoImage
    \/ ConvImageRaises
    \/ ConvOpen
    \/ ConvertLine
    \/ ConvertLineRaises
    \/ ConvClose
    \/ ConvCloseCopy
    \/ ConvCloseCopyFails
    \/ ConvSummary
    \/ MainVerifyLabels
    \/ VerifyPair
    \/ VerifyFile
    \/ VerifyPairDone
    \/ VerifyReturn
    \/ ReportPair
    \/ ReportOverall
    \/ MainVerifyImages
    \/ MainReturn

Spec == Init /\ [][Next]_vars

-----------------------------------------------------------------------------
(* The conversion of one label line, over a range of lines, image sizes and
   class mappings: the converter has opened a.txt, which holds one line *)

\* the class field: "0", "1", "01", "7", and "x" (no integer)
ClassTokens == {<<"0">>, <<"1">>, <<"0", "1">>, <<"7">>, <<"x">>}

\* the centre fields: "0.5", "0", "1"
CentreTokens == {<<"0", ".", "5">>, <<"0">>, <<"1">>}

\* the width and height fields: "0.2", "0.4", "0.001", "0"
ExtentTokens == {<<"0", ".", "2">>, <<"0", ".", "4">>, <<"0", ".", "0", "0", "1">>, <<"0">>}

ImageWidths == {4, 10, 100}
ImageHeights == {4, 10, 200}

\* {"0": "car"}, {"0": "license plate"}, {"1": "", "01": "x"}, {}
Mappings ==
    {CarMapping,
     (<<"0">> :> <<"l", "i", "c", "e", "n", "s", "e", " ", "p", "l", "a", "t", "e">>),
     (<<"1">> :> <<>>) @@ (<<"0", "1">> :> <<"x">>),
     EmptyMapping}

YoloLine(c, xc, yc, w, h) ==
    c \o SP \o xc \o SP \o yc \o SP \o w \o SP \o h \o <<"\n">>

OneSet ==
    [label_folders |-> FolderList("labels", 1),
     output_folders |-> FolderList("kitti", 1),
     image_folders |-> FolderList("images", 1),
     image_output_folders |-> <<>>,
     class_mapping |-> [valid |-> TRUE, value |-> EmptyMapping]]

\* the file system when the converter has opened a.txt (holding line) and
\* created its KITTI file, the image a.png being of the given size
OpenedFileSystem(line, size) ==
    [d \in Folders |->
        IF d = LabelFolder(1) THEN Folder(NameA :> TextFile(line))
        ELSE IF d = ImageFolder(1) THEN Folder(ImageA :> ImageFile(TRUE, size))
        ELSE IF d = OutputFolder(1) THEN Folder(NameA :> TextFile(<<>>))
        ELSE OtherFolder(d)]

InitConv ==
    /\ \E c \in ClassTokens, xc \in CentreTokens, yc \in CentreTokens,
          w \in ExtentTokens, h \in ExtentTokens,
          iw \in ImageWidths, ih \in ImageHeights, m \in Mappings :
        /\ args = [OneSet EXCEPT !.class_mapping.value = m]
        /\ class_mapping = m
        /\ fs = OpenedFileSystem(YoloLine(c, xc, yc, w, h), <<iw, ih>>)
        /\ fs0 = fs
        /\ lines = <<YoloLine(c, xc, yc, w, h)>>
        /\ image_size = <<iw, ih>>
    /\ pc = "conv_lines"
    /\ idx = 1
    /\ todo = {NameA}
    /\ filename = NameA
    /\ processed_labels = 0
    /\ copied_images = 0
    /\ failed_copies = 0
    /\ folder_type = "labels"
    /\ verification_results = <<>>
    /\ all_passed = TRUE
    /\ stdout = <<[msg |-> "Processing set", n |-> 1]>>

NextConv ==
    \/ ConvertLine
    \/ ConvertLineRaises

SpecConv == InitConv /\ [][NextConv]_vars

-----------------------------------------------------------------------------
(* verify_conversion and print_verification_report on label folders, over a
   range of source and destination folders *)

\* "car 0.0 0 -1.0 1.00 1.00 2.00 2.00 0 0 0 0 0 0 0\n": a label line of 15 fields
KittiLine == <<"c", "a", "r", " ", "0", ".", "0", " ", "0", " ", "-", "1", ".", "0", " ", "1", ".", "0", "0", " ", "1", ".", "0", "0", " ", "2", ".", "0", "0", " ", "2", ".", "0", "0", " ", "0", " ", "0", " ", "0", " ", "0", " ", "0", " ", "0", " ", "0", "\n">>

\* the files a destination folder may hold, each with the contents it may have
KittiContents ==
    [f \in {NameA, NameB, NameC, NameN} |->
        IF f = NameA
        THEN {TextFile(<<>>), TextFile(KittiLine), TextFile(KittiLine \o StaleLine),
              TextFile(StaleLine \o KittiLine \o StaleLine), TextFile(<<"\n">>)}
        ELSE {TextFile(KittiLine)}]

\* the files a source folder may hold (the verification reads their names only)
SourceContents == [f \in {NameA, NameB, NameC, NameN} |-> {TextFile(GoodLine)}]

VerifyFileSystems ==
    { [d \in Folders |->
          IF d = LabelFolder(1) THEN Folder(L)
          ELSE IF d = OutputFolder(1) THEN Folder(K)
          ELSE IF d[1] = "labels" THEN Folder(NameA :> TextFile(GoodLine))
          ELSE IF d[1] = "kitti" THEN Folder(K2)
          ELSE AbsentFolder] :
        L \in FileMaps(SourceContents),
        K \in FileMaps(KittiContents),
        K2 \in {NoFiles, NameA :> TextFile(KittiLine)} }

InitVerify ==
    /\ \E n \in 1..MaxSets :
        args = [OneSet EXCEPT !.label_folders = FolderList("labels", n),
                              !.output_folders = FolderList("kitti", n),
                              !.image_folders = FolderList("images", n)]
    /\ fs \in VerifyFileSystems
    /\ fs0 = fs
    /\ pc = "verify_pair"
    /\ class_mapping = EmptyMapping
    /\ idx = 1
    /\ todo = {}
    /\ filename = <<>>
    /\ lines = <<>>
    /\ image_size = <<0, 0>>
    /\ processed_labels = 0
    /\ copied_images = 0
    /\ failed_copies = 0
    /\ folder_type = "labels"
    /\ verification_results = <<>>
    /\ all_passed = TRUE
    /\ stdout = <<>>

NextVerify ==
    \/ VerifyPair
    \/ VerifyFile
    \/ VerifyPairDone
    \/ VerifyReturn
    \/ ReportPair
    \/ ReportOverall

SpecVerify == InitVerify /\ [][NextVerify]_vars

-----------------------------------------------------------------------------
(* print_verification_report on any results *)

AnError == [file |-> NameA, line |-> 1, msg |-> "Invalid KITTI format"]

AnyResults ==
    [source_count : 0..1,
     destination_count : 0..1,
     missing_files : SUBSET {NameA},
     unexpected_files : SUBSET {NameB},
     verification_errors : {<<>>, <<AnError>>}]

InitReport ==
    /\ verification_results \in UNION {[1..n -> AnyResults] : n \in 1..MaxSets}
    /\ args = OneSet
    /\ fs = [d \in Folders |-> AbsentFolder]
    /\ fs0 = fs
    /\ pc = "report"
    /\ class_mapping = EmptyMapping
    /\ idx = 1
    /\ todo = {}
    /\ filename = <<>>
    /\ lines = <<>>
    /\ image_size = <<0, 0>>
    /\ processed_labels = 0
    /\ copied_images = 0
    /\ failed_copies = 0
    /\ folder_type = "labels"
    /\ all_passed = TRUE
    /\ stdout = <<>>

NextReport ==
    \/ ReportPair
    \/ ReportOverall

SpecReport == InitReport /\ [][NextReport]_vars

-----------------------------------------------------------------------------
(* Properties of the conversion of one line (SpecConv) *)

\* the line the converter was given, its fields, and the text it has written
GivenLine == fs0[LabelFolder(1)].files[NameA].data
Given == Split(GivenLine)
Written == fs[OutputFolder(1)].files[NameA].data

\* the one line has been read and its KITTI line written
LineWritten == pc = "conv_lines" /\ lines = <<>>

\* The four corner fields of the written text.  They are the fields that
\* precede the seven closing "0" fields, so they are counted from the end.
Corner(k) == LET parts == Split(Written) IN parts[Len(parts) - 11 + k]

\* a numeral with exactly two digits after its decimal point
TwoDecimals(t) ==
    LET u == Unsigned(t) IN
    /\ DotPos(u) > 0
    /\ Len(IntPart(u)) >= 1 /\ AllDigits(IntPart(u))
    /\ Len(FracPart(u)) = 2 /\ AllDigits(FracPart(u))

\* the value of a two-decimal numeral, in hundredths
InHundredths(t) ==
    LET u == Unsigned(t) IN
    Sign(t) * (100 * DigitsVal(IntPart(u)) + DigitsVal(FracPart(u)))

\* t prints, to two decimals, the value num / den: it is within half a
\* hundredth of it
PrintsValue(t, num, den) ==
    /\ TwoDecimals(t)
    /\ 2 * Abs(InHundredths(t) * den - 100 * num) <= den

\* the given numbers, in units of 1 / Scale, and the image size
GivenXc == FloatVal(Given[2])
GivenYc == FloatVal(Given[3])
GivenW == FloatVal(Given[4])
GivenH == FloatVal(Given[5])

\* C1: for every YOLO line (class_id, xc, yc, w, h) and image size W x H the
\* converter writes x_left = (xc - w/2)*W, y_top = (yc - h/2)*H,
\* x_right = (xc + w/2)*W, y_bottom = (yc + h/2)*H, each printed with exactly
\* two decimals.  ((xc - w/2)*W = (2*xc - w)*W / 2, and so on.)
C1_Corners ==
    LineWritten =>
        /\ Len(Split(Written)) >= 11
        /\ PrintsValue(Corner(1), (2 * GivenXc - GivenW) * image_size[1], 2 * Scale)
        /\ PrintsValue(Corner(2), (2 * GivenYc - GivenH) * image_size[2], 2 * Scale)
        /\ PrintsValue(Corner(3), (2 * GivenXc + GivenW) * image_size[1], 2 * Scale)
        /\ PrintsValue(Corner(4), (2 * GivenYc + GivenH) * image_size[2], 2 * Scale)

\* C1 witness: the line "... 0 0.5 0.2 0.001" on a 100 x 4 image has been
\* converted to x_left = -10.00, y_top = 2.00, x_right = 10.00, y_bottom = 2.00
C1_Witness ==
    /\ LineWritten
    /\ Corner(1) = <<"-", "1", "0", ".", "0", "0">>
    /\ Corner(2) = <<"2", ".", "0", "0">>
    /\ Corner(3) = <<"1", "0", ".", "0", "0">>
    /\ Corner(4) = <<"2", ".", "0", "0">>

\* the example of the specification: class 0, xc = 0.5, yc = 0.5, w = 0.2,
\* h = 0.4 on an image of width 100 and height 200, converted
ExampleConverted ==
    /\ LineWritten
    /\ GivenLine = GoodLine
    /\ image_size = <<100, 200>>

\* C2 as stated: the example yields x_left = 40.00, y_top = 10.00,
\* x_right = 60.00, y_bottom = 90.00.
C2_Original ==
    ExampleConverted =>
        /\ Corner(1) = <<"4", "0", ".", "0", "0">>
        /\ Corner(2) = <<"1", "0", ".", "0", "0">>
        /\ Corner(3) = <<"6", "0", ".", "0", "0">>
        /\ Corner(4) = <<"9", "0", ".", "0", "0">>

\* C2 amended: the example yields x_left = 40.00, y_top = 60.00,
\* x_right = 60.00, y_bottom = 140.00.
C2_Example ==
    ExampleConverted =>
        /\ Corner(1) = <<"4", "0", ".", "0", "0">>
        /\ Corner(2) = <<"6", "0", ".", "0", "0">>
        /\ Corner(3) = <<"6", "0", ".", "0", "0">>
        /\ Corner(4) = <<"1", "4", "0", ".", "0", "0">>

\* C2 witness: the example has been converted, under the mapping {"0": "car"}
C2_Witness == ExampleConverted /\ class_mapping = CarMapping


\* the class name the mapping gives the class id of the given line, "DontCare"
\* when the string form of the id is no key of it
GivenId == IntVal(Given[1])
GivenKey == IntStr(GivenId)
ExpectedName == IF GivenKey \in DOMAIN class_mapping THEN class_mapping[GivenKey]
                ELSE DontCare

\* C6 as stated: every line the converter writes is a record of exactly 15
\* whitespace-separated fields, in order: class name, 0.0, 0, -1.0, x_left,
\* y_top, x_right, y_bottom, then seven 0 fields; exactly one line is written
\* per YOLO line, for any class mapping supplied.
C6_Claim ==
    LineWritten =>
        /\ Len(ReadLines(Written)) = 1
        /\ LET parts == Parts(ReadLines(Written)[1]) IN
            /\ Len(parts) = 15
            /\ parts[2] = <<"0", ".", "0">>
            /\ parts[3] = <<"0">>
            /\ parts[4] = <<"-", "1", ".", "0">>
            /\ \A k \in 5..8 : TwoDecimals(parts[k])
            /\ \A k \in 9..15 : parts[k] = <<"0">>

\* C7: a class id whose string form is not a key of the class mapping resolves
\* to "DontCare" and never raises; a class id that is a key resolves to its
\* mapped name.  (The written text starts with the name, followed by the 0.0
\* field; no line whose class field is an integer makes the conversion raise:
\* such a line parses and has a text to write.)
C7_ClassName ==
    /\ LineWritten => StartsWith(Written, ExpectedName \o SP \o Placeholders \o SP)
    /\ pc = "raised" => ~IntOk(Given[1])
    /\ (pc = "conv_lines" /\ lines # <<>> /\ IntOk(Given[1])) =>
          /\ LineParses(Head(lines))
          /\ KittiLines(Head(lines), image_size, class_mapping) # {}

\* C7 witness: class id 7, no key of {"0": "car"}, was written as DontCare
C7_Witness ==
    /\ LineWritten
    /\ Given[1] = <<"7">>
    /\ class_mapping = CarMapping
    /\ StartsWith(Written, DontCare \o SP)

\* width and height of the given box are positive, all four numbers in [0, 1]
Normalized ==
    \A v \in {GivenXc, GivenYc, GivenW, GivenH} : 0 <= v /\ v <= Scale

\* C8 as stated: for a normalized box with w > 0 and h > 0 the emitted
\* two-decimal values satisfy x_left < x_right and y_top < y_bottom.
C8_Original ==
    (LineWritten /\ Normalized /\ GivenW > 0 /\ GivenH > 0) =>
        /\ InHundredths(Corner(1)) < InHundredths(Corner(3))
        /\ InHundredths(Corner(2)) < InHundredths(Corner(4))

\* C8 amended: for a normalized box the emitted two-decimal values satisfy
\* x_left <= x_right and y_top <= y_bottom, strictly when the box is at least
\* 0.02 pixel wide (w * W >= 0.02), respectively high (h * H >= 0.02).
C8_Ordered ==
    (LineWritten /\ Normalized) =>
        /\ InHundredths(Corner(1)) <= InHundredths(Corner(3))
        /\ InHundredths(Corner(2)) <= InHundredths(Corner(4))
        /\ 100 * GivenW * image_size[1] >= 2 * Scale
              => InHundredths(Corner(1)) < InHundredths(Corner(3))
        /\ 100 * GivenH * image_size[2] >= 2 * Scale
              => InHundredths(Corner(2)) < InHundredths(Corner(4))

\* C8 witness: a box of width 0.001 on an image 4 pixels wide was written with
\* x_left = x_right = 2.00, and with y_top < y_bottom
C8_Witness ==
    /\ LineWritten /\ Normalized
    /\ GivenW = 1 * Pow10(MaxFrac - 3) /\ image_size[1] = 4
    /\ Corner(1) = <<"2", ".", "0", "0">> /\ Corner(3) = <<"2", ".", "0", "0">>
    /\ InHundredths(Corner(2)) < InHundredths(Corner(4))


-----------------------------------------------------------------------------
(* Properties of the report (SpecReport) and of the verification (SpecVerify) *)

\* the overall status line the report ended with
Reported == pc = "reported"
OverallStatus == stdout[Len(stdout)].status

\* C3: the report is PASSED if and only if, for every folder pair of the
\* results, source_count equals destination_count and missing_files is empty
\* and unexpected_files is empty and verification_errors is empty.
C3_PassedIff ==
    Reported =>
        /\ OverallStatus \in {"PASSED", "FAILED"}
        /\ OverallStatus = "PASSED" <=>
              \A i \in 1..Len(verification_results) :
                  /\ verification_results[i].source_count
                        = verification_results[i].destination_count
                  /\ verification_results[i].missing_files = {}
                  /\ verification_results[i].unexpected_files = {}
                  /\ verification_results[i].verification_errors = <<>>

\* C3 witness: a report over two pairs is FAILED although the last pair is
\* clean, the first one violating one field only: it has an integrity error
C3_Witness ==
    /\ Reported
    /\ OverallStatus = "FAILED"
    /\ Len(verification_results) = 2
    /\ Verified(verification_results[2])
    /\ verification_results[1].source_count = verification_results[1].destination_count
    /\ verification_results[1].missing_files = {}
    /\ verification_results[1].unexpected_files = {}
    /\ verification_results[1].verification_errors # <<>>

\* the label files (names ending in ".txt") of source and destination folder i
SourceLabels(i) == {f \in DOMAIN fs[LabelFolder(i)].files : EndsWith(f, TxtExt)}
DestinationLabels(i) == {f \in DOMAIN fs[OutputFolder(i)].files : EndsWith(f, TxtExt)}

\* C4: for every folder pair, missing_files is exactly the set of ".txt" source
\* file names not present in the destination, unexpected_files exactly the set
\* of ".txt" destination file names not present in the source, source_count and
\* destination_count the sizes of the two filtered sets; 3 source labels with 2
\* of them in the destination give missing_files of size 1 and a FAILED report.
C4_Differences ==
    /\ \A i \in 1..Len(verification_results) :
        LET results == verification_results[i] IN
        /\ results.missing_files =
              {f \in SourceLabels(i) : f \notin DOMAIN fs[OutputFolder(i)].files}
        /\ results.unexpected_files =
              {f \in DestinationLabels(i) : f \notin DOMAIN fs[LabelFolder(i)].files}
        /\ results.source_count = Cardinality(SourceLabels(i))
        /\ results.destination_count = Cardinality(DestinationLabels(i))
        /\ (Cardinality(SourceLabels(i)) = 3
              /\ Cardinality(SourceLabels(i) \cap DestinationLabels(i)) = 2)
           => /\ Cardinality(results.missing_files) = 1
              /\ Reported => OverallStatus = "FAILED"

\* C4 witness: the report is out for a first pair of 3 source labels, 2 of them
\* in the destination, next to files that are no labels on both sides
C4_Witness ==
    /\ Reported
    /\ Cardinality(SourceLabels(1)) = 3
    /\ DestinationLabels(1) = {NameA, NameB}
    /\ NameN \in DOMAIN fs[LabelFolder(1)].files
    /\ NameN \in DOMAIN fs[OutputFolder(1)].files
    /\ Cardinality(verification_results[1].missing_files) = 1
    /\ OverallStatus = "FAILED"

\* the pairs whose integrity pass is over
PassedPairs ==
    IF pc = "verify_files" /\ todo # {}
    THEN 1..(Len(verification_results) - 1) ELSE 1..Len(verification_results)

\* the entries of pair i about file f, in the order they were recorded
EntriesOf(i, f) ==
    SelectSeq(verification_results[i].verification_errors, LAMBDA e : e.file = f)

\* the lines of the destination label file f of pair i
LinesOf(i, f) == ReadLines(fs[OutputFolder(i)].files[f].data)

\* the 1-based numbers of the lines of f whose token count is not 15
BadLines(i, f) ==
    {k \in 1..Len(LinesOf(i, f)) : Len(Split(Strip(LinesOf(i, f)[k]))) # 15}

\* C5: after the integrity pass, for every non-empty destination label file the
\* recorded errors are exactly one entry per line whose token count is not 15,
\* each with that line's 1-based number; an empty file yields exactly one
\* 'Empty label file' entry; a file whose lines all have 15 tokens yields none.
C5_IntegrityEntries ==
    \A i \in PassedPairs : \A f \in DestinationLabels(i) :
        LET entries == EntriesOf(i, f) IN
        IF fs[OutputFolder(i)].files[f].data = <<>>
        THEN /\ Len(entries) = 1
             /\ entries[1].msg = "Empty label file"
        ELSE /\ \A k \in 1..Len(entries) : entries[k].msg = "Invalid KITTI format"
             /\ {entries[k].line : k \in 1..Len(entries)} = BadLines(i, f)
             /\ Len(entries) = Cardinality(BadLines(i, f))

\* C5 witness: the file a.txt, whose second line alone has 14 tokens, was
\* flagged once, with line number 2
C5_Witness ==
    /\ 1 \in PassedPairs
    /\ NameA \in DestinationLabels(1)
    /\ fs[OutputFolder(1)].files[NameA].data = KittiLine \o StaleLine
    /\ Len(EntriesOf(1, NameA)) = 1
    /\ EntriesOf(1, NameA)[1].line = 2


-----------------------------------------------------------------------------
(* Properties of a run of main() (Spec) *)

\* The companion image of a label file: the file of the image folder that
\* shares its stem (the name without its ".txt" extension), with extension ".png"
Stem(f) == SubSeq(f, 1, Len(f) - Len(TxtExt))
Companion(f) == Stem(f) \o PngExt
HasCompanion(i, f) == Companion(f) \in DOMAIN fs[ImageFolder(i)].files

\* the file f of a folder of file system g: <<content>>, or <<>> when absent
FileState(g, folder, f) ==
    IF g[folder].exists /\ f \in DOMAIN g[folder].files
    THEN <<g[folder].files[f]>> ELSE <<>>

\* the converter has just returned from folder set i
ConverterReturned(i) == pc = "main_loop" /\ idx = i + 1

\* C9 as stated: in one run of the converter over a label folder, a ".txt"
\* label whose companion image is missing is skipped without aborting the
\* batch: no KITTI file is created or modified for it, every ".txt" label that
\* has a companion image is converted exactly once (its KITTI file holds one
\* line per line of the label), and the 'labels processed' counter equals the
\* number of labels with a companion image.
C9_Claim ==
    \A i \in 1..MaxSets :
        ConverterReturned(i) =>
            /\ \A f \in SourceLabels(i) :
                IF HasCompanion(i, f)
                THEN /\ f \in DOMAIN fs[OutputFolder(i)].files
                     /\ Len(ReadLines(fs[OutputFolder(i)].files[f].data))
                           = Len(ReadLines(fs[LabelFolder(i)].files[f].data))
                ELSE FileState(fs, OutputFolder(i), f) = FileState(fs0, OutputFolder(i), f)
            /\ processed_labels
                  = Cardinality({f \in SourceLabels(i) : HasCompanion(i, f)})
            /\ stdout[Len(stdout)] = [msg |-> "Labels processed", n |-> processed_labels]

\* the command line is a configuration error: the class mapping is no JSON, or
\* the label / output / image folder lists, and the image-output folder list
\* when supplied, do not all have the same length
ConfigurationError ==
    \/ ~args.class_mapping.valid
    \/ Len(args.label_folders) # Len(args.output_folders)
    \/ Len(args.label_folders) # Len(args.image_folders)
    \/ /\ args.image_output_folders # <<>>
       /\ Len(args.image_output_folders) # Len(args.label_folders)

ErrorMessages ==
    {"Invalid class mapping JSON",
     "Error: The number of image output folders must match the number of input folders.",
     "Error: The number of input, output, and image folders must match."}

\* C10: on a configuration error main prints an error and returns before any
\* folder is created, any label converted, any image copied or any
\* verification run: the file system is left unchanged.
C10_ConfigurationError ==
    ConfigurationError =>
        /\ pc \in {"main", "check_image_outputs", "check_folders", "done"}
        /\ fs = fs0
        /\ processed_labels = 0 /\ copied_images = 0
        /\ verification_results = <<>>
        /\ pc = "done" => /\ Len(stdout) = 1
                          /\ stdout[1].msg \in ErrorMessages

\* C10 witness: main has returned on a command line of one label folder, one
\* output folder and two image folders, having printed the folder-count error
C10_Witness ==
    /\ pc = "done"
    /\ args.class_mapping.valid
    /\ Len(args.label_folders) = 1 /\ Len(args.output_folders) = 1
    /\ Len(args.image_folders) = 2 /\ Len(args.image_output_folders) = 1
    /\ stdout = <<[msg |-> "Error: The number of input, output, and image folders must match."]>>
    /\ fs = fs0

\* the run has stopped before completing: an uncaught exception has left main
Aborted == pc = "raised"

\* the label files a destination folder holds now or held before the run
Destinations(i) ==
    DOMAIN fs[OutputFolder(i)].files \cup DOMAIN fs0[OutputFolder(i)].files

\* the destination label f of set i holds one line for every line of its source
FullyWritten(i, f) ==
    /\ f \in DOMAIN fs[OutputFolder(i)].files
    /\ f \in DOMAIN fs[LabelFolder(i)].files
    /\ Len(ReadLines(fs[OutputFolder(i)].files[f].data))
          = Len(ReadLines(fs[LabelFolder(i)].files[f].data))

NotTouched(i, f) ==
    FileState(fs, OutputFolder(i), f) = FileState(fs0, OutputFolder(i), f)

\* C11 as stated: whenever a conversion run stops before completing (the abort
\* caused by a malformed YOLO label line at any position included), every
\* destination label file is either fully written (one KITTI line for every
\* line of its source label) or not touched: none is left created, truncated
\* or partially written.
C11_Claim ==
    Aborted =>
        \A i \in 1..MaxSets : \A f \in Destinations(i) :
            FullyWritten(i, f) \/ NotTouched(i, f)

\* the label verification of a run of main has been reported
LabelsReported == pc = "reported" /\ folder_type = "labels"

\* the lines of the label f of set i, as the run found it
SourceLines(i, f) == ReadLines(fs0[LabelFolder(i)].files[f].data)

\* folder triple i as the run found it: the output folder is absent or empty,
\* and every ".txt" file of the label folder has a companion ".png" image and
\* holds only well-formed YOLO lines (possibly none)
CleanTriple(i) ==
    /\ fs0[OutputFolder(i)].files = NoFiles
    /\ \A f \in DOMAIN fs0[LabelFolder(i)].files :
          EndsWith(f, TxtExt) =>
              /\ Companion(f) \in DOMAIN fs0[ImageFolder(i)].files
              /\ \A k \in 1..Len(SourceLines(i, f)) : LineParses(SourceLines(i, f)[k])

\* C12 as stated: for a folder triple whose output folder is initially absent
\* or empty, where every ".txt" file of the label folder has a companion ".png"
\* image and contains only well-formed 5-field YOLO lines (possibly zero
\* lines), the converter followed by verify_conversion with folder_type
\* "labels" yields equal counts, no missing file, no unexpected file and no
\* verification error, so the label report is PASSED.
C12_Claim ==
    LabelsReported =>
        /\ \A i \in 1..Sets : CleanTriple(i) => Verified(verification_results[i])
        /\ (\A i \in 1..Sets : CleanTriple(i)) => OverallStatus = "PASSED"

====
